---- MODULE Spec2Model ----
(***************************************************************************)
(* Model of port-manager: the advisory file lock (src/lib/lock.mjs), the   *)
(* registry store (src/lib/registry.mjs) and the lease engine              *)
(* (src/lib/core-api.mjs).  Every invocation of the tool is a short-lived  *)
(* process; processes coordinate only through the registry file and the    *)
(* lock marker.  A process advances one await point at a time.             *)
(***************************************************************************)
EXTENDS Integers, Sequences, FiniteSets, TLC

(***************************************************************************)
(* Bounds of the model.                                                    *)
(***************************************************************************)
MaxLeases == 2        \* leases kept in one registry document
MaxNow == 60001       \* last clock value (milliseconds) that is explored
MaxAge == 604800001   \* last clock value explored where leases grow old

(***************************************************************************)
(* Program constants.                                                      *)
(***************************************************************************)
STALE_LOCK_AGE_MS == 60000
DefaultTimeoutMs == 30000

Procs == {1, 2}
NoProc == 0

\* JS null, undefined and '' are all falsy; a missing string argument or a
\* failed git lookup is the empty sequence.  Paths and identifiers are
\* sequences of characters so that normalisation can be computed.
Null == <<>>

(***************************************************************************)
(* registry.mjs : pure helpers on an in-memory registry                    *)
(***************************************************************************)
\* A default registry without the storybook pool.
getDefaultRegistry_noStorybook ==
  [ version |-> "1.0",
    pools |-> [ n \in {"frontend", "backend"} |->
                  IF n = "frontend" THEN [rangeStart |-> 3300, rangeEnd |-> 3499]
                  ELSE [rangeStart |-> 5300, rangeEnd |-> 5499] ],
    leases |-> <<>> ]

getDefaultRegistry ==
  [ version |-> "1.0",
    pools |-> [ n \in {"frontend", "backend", "storybook"} |->
                  CASE n = "frontend"  -> [rangeStart |-> 3300, rangeEnd |-> 3499]
                    [] n = "backend"   -> [rangeStart |-> 5300, rangeEnd |-> 5499]
                    [] n = "storybook" -> [rangeStart |-> 6300, rangeEnd |-> 6499] ],
    leases |-> <<>> ]

\* initRegistry: the default registry stamped with the current time.
initRegistry(t) ==
  [ version |-> getDefaultRegistry.version,
    pools |-> getDefaultRegistry.pools,
    leases |-> getDefaultRegistry.leases,
    lastModified |-> t ]

\* saveRegistry: what is written is the registry stamped with the current time.
saveRegistry(registry, t) == [registry EXCEPT !.lastModified = t]

hasPool(registry, poolName) == poolName \in DOMAIN registry.pools

validatePool(registry, poolName) == hasPool(registry, poolName)

\* Index of the first lease matching the triple, 0 when there is none.
RECURSIVE findFrom(_, _, _, _, _)
findFrom(leases, i, identifier, pool, tag) ==
  IF i > Len(leases) THEN 0
  ELSE IF /\ leases[i].identifier = identifier
          /\ leases[i].pool = pool
          /\ leases[i].tag = tag
       THEN i
       ELSE findFrom(leases, i + 1, identifier, pool, tag)

\* getExistingLease that looks at the first lease only.
getExistingLease_firstOnly(registry, identifier, pool, tag) ==
  IF /\ Len(registry.leases) >= 1
     /\ registry.leases[1].identifier = identifier
     /\ registry.leases[1].pool = pool
     /\ registry.leases[1].tag = tag
  THEN 1 ELSE 0

\* getExistingLease called with identifier and pool in each other's place.
getExistingLease_swapped(registry, identifier, pool, tag) ==
  findFrom(registry.leases, 1, pool, identifier, tag)

getExistingLease(registry, identifier, pool, tag) ==
  findFrom(registry.leases, 1, identifier, pool, tag)

\* A getLeasedPorts that reports no port as leased.
getLeasedPorts_none(registry, pool) == {}

getLeasedPorts(registry, pool) ==
  { registry.leases[i].port :
      i \in { j \in 1..Len(registry.leases) : registry.leases[j].pool = pool } }

getAllLeasedPorts(registry) ==
  { registry.leases[i].port : i \in 1..Len(registry.leases) }

addLease(registry, port, pool, identifier, worktreePath, tag, t) ==
  [registry EXCEPT !.leases =
     Append(@, [ port |-> port, pool |-> pool, identifier |-> identifier,
                 worktreePath |-> worktreePath, tag |-> tag, leasedAt |-> t ])]

\* removeLeasesByIdentifier that spares the tagged leases.
removeLeasesByIdentifier_untaggedOnly(registry, identifier) ==
  LET Keep(l) == ~(l.identifier = identifier /\ l.tag = "")
  IN [registry EXCEPT !.leases = SelectSeq(@, Keep)]

removeLeasesByIdentifier(registry, identifier) ==
  LET Keep(l) == l.identifier # identifier
  IN [registry EXCEPT !.leases = SelectSeq(@, Keep)]

\* removeLeasesByTag that forgets to compare the tag.
removeLeasesByTag_ignoresTag(registry, identifier, tag) ==
  LET Keep(l) == ~(l.identifier = identifier)
  IN [registry EXCEPT !.leases = SelectSeq(@, Keep)]

removeLeasesByTag(registry, identifier, tag) ==
  LET Keep(l) == ~(l.identifier = identifier /\ l.tag = tag)
  IN [registry EXCEPT !.leases = SelectSeq(@, Keep)]

\* clearPoolLeases that empties the whole lease list.
clearPoolLeases_all(registry, poolName) ==
  [registry EXCEPT !.leases = <<>>]

clearPoolLeases(registry, poolName) ==
  LET Keep(l) == l.pool # poolName
  IN [registry EXCEPT !.leases = SelectSeq(@, Keep)]

\* removeStaleLeases removes every lease whose port equals the port of a
\* stale lease.
removeStaleLeases(registry, stalePorts) ==
  LET Keep(l) == l.port \notin stalePorts
  IN [registry EXCEPT !.leases = SelectSeq(@, Keep)]

addPool(registry, name, rangeStart, rangeEnd) ==
  [registry EXCEPT !.pools =
     [ n \in DOMAIN registry.pools \cup {name} |->
         IF n = name THEN [rangeStart |-> rangeStart, rangeEnd |-> rangeEnd]
                     ELSE registry.pools[n] ]]

updatePool(registry, name, rangeStart, rangeEnd) ==
  [registry EXCEPT !.pools[name] = [rangeStart |-> rangeStart, rangeEnd |-> rangeEnd]]

deletePool(registry, name) ==
  [registry EXCEPT !.pools = [ n \in DOMAIN registry.pools \ {name} |-> registry.pools[n] ]]

\* A lease count of deletePool that finds no lease.
leasesInPool_none(registry, name) == <<>>

leasesInPool(registry, name) ==
  LET InPool(l) == l.pool = name
  IN SelectSeq(registry.leases, InPool)

(***************************************************************************)
(* core-api.mjs : what each method does between load and save.             *)
(* An outcome is the result the method returns or the error it throws,     *)
(* the registry it holds afterwards and whether it called saveRegistry.    *)
(***************************************************************************)
Outcome(status, error, port, removedCount, registry, save) ==
  [ status |-> status, error |-> error, port |-> port,
    removedCount |-> removedCount, registry |-> registry, save |-> save,
    staleLeases |-> <<>>, probed |-> {} ]

Ok(port, removedCount, registry, save) ==
  Outcome("ok", "", port, removedCount, registry, save)

Err(error, registry) == Outcome("error", error, 0, 0, registry, FALSE)

\* A scan that consults the probe only and not the ports leased in the pool.
scanPorts_ignoresLeased(rangeStart, rangeEnd, leasedPorts, busy) ==
  LET free == { q \in rangeStart..rangeEnd : q \notin busy }
  IN IF free = {} THEN <<>>
     ELSE << CHOOSE q \in free : \A r \in free : q <= r >>

\* The scan of lease(): candidates in ascending order, the first one that is
\* neither leased in this pool nor reported in use wins; <<>> is null.  The
\* range is searched lower half first, which visits the ports in the order
\* of the loop.
RECURSIVE scanPorts(_, _, _, _)
scanPorts(rangeStart, rangeEnd, leasedPorts, busy) ==
  IF rangeStart > rangeEnd THEN <<>>
  ELSE IF rangeStart = rangeEnd
  THEN IF rangeStart \notin leasedPorts /\ rangeStart \notin busy
       THEN <<rangeStart>> ELSE <<>>
  ELSE LET mid == rangeStart + ((rangeEnd - rangeStart) \div 2)
           lower == scanPorts(rangeStart, mid, leasedPorts, busy)
       IN IF lower # <<>> THEN lower
          ELSE scanPorts(mid + 1, rangeEnd, leasedPorts, busy)

\* `!foundPort` of lease(): null and the number 0 are both falsy.
notFound(foundPort) == foundPort = <<>> \/ foundPort[1] = 0

\* lease() that stamps an existing lease with the worktreePath and the time
\* of the call.
leaseBody_refreshes(registry, pool, tag, identifier, worktreePath, busy, t) ==
  IF ~validatePool(registry, pool) THEN Err("UnknownPool", registry)
  ELSE
    LET existing == getExistingLease(registry, identifier, pool, tag) IN
    IF existing # 0
    THEN Ok(registry.leases[existing].port, 0,
            [registry EXCEPT !.leases[existing].worktreePath = worktreePath,
                             !.leases[existing].leasedAt = t],
            TRUE)
    ELSE
      LET foundPort == scanPorts(registry.pools[pool].rangeStart,
                                 registry.pools[pool].rangeEnd,
                                 getLeasedPorts(registry, pool), busy)
      IN IF notFound(foundPort) THEN Err("PoolExhausted", registry)
         ELSE Ok(foundPort[1], 0,
                 addLease(registry, foundPort[1], pool, identifier, worktreePath, tag, t),
                 TRUE)

\* lease() that saves the registry when it returns an existing lease.
leaseBody_resaves(registry, pool, tag, identifier, worktreePath, busy, t) ==
  IF ~validatePool(registry, pool) THEN Err("UnknownPool", registry)
  ELSE
    LET existing == getExistingLease(registry, identifier, pool, tag) IN
    IF existing # 0 THEN Ok(registry.leases[existing].port, 0, registry, TRUE)
    ELSE
      LET foundPort == scanPorts(registry.pools[pool].rangeStart,
                                 registry.pools[pool].rangeEnd,
                                 getLeasedPorts(registry, pool), busy)
      IN IF notFound(foundPort) THEN Err("PoolExhausted", registry)
         ELSE Ok(foundPort[1], 0,
                 addLease(registry, foundPort[1], pool, identifier, worktreePath, tag, t),
                 TRUE)

leaseBody(registry, pool, tag, identifier, worktreePath, busy, t) ==
  IF ~validatePool(registry, pool) THEN Err("UnknownPool", registry)
  ELSE
    LET existing == getExistingLease(registry, identifier, pool, tag) IN
    IF existing # 0 THEN Ok(registry.leases[existing].port, 0, registry, FALSE)
    ELSE
      LET rangeStart == registry.pools[pool].rangeStart
          rangeEnd == registry.pools[pool].rangeEnd
          leasedPorts == getLeasedPorts(registry, pool)
          foundPort == scanPorts(rangeStart, rangeEnd, leasedPorts, busy)
      IN IF notFound(foundPort) THEN Err("PoolExhausted", registry)
         ELSE Ok(foundPort[1], 0,
                 addLease(registry, foundPort[1], pool, identifier, worktreePath, tag, t),
                 TRUE)

\* release() that saves and returns when nothing was removed.
releaseBody_savesAlways(registry, tagArg, identifier) ==
  LET after == IF tagArg # <<>>
               THEN removeLeasesByTag(registry, identifier, tagArg[1])
               ELSE removeLeasesByIdentifier(registry, identifier)
  IN Ok(0, Len(registry.leases) - Len(after.leases), after, TRUE)

\* release(): tagArg is <<>> when the tag is not supplied, <<tag>> otherwise.
releaseBody(registry, tagArg, identifier) ==
  LET after == IF tagArg # <<>>
               THEN removeLeasesByTag(registry, identifier, tagArg[1])
               ELSE removeLeasesByIdentifier(registry, identifier)
      removedCount == Len(registry.leases) - Len(after.leases)
  IN IF removedCount = 0 THEN Err("NothingToRelease", after)
     ELSE Ok(0, removedCount, after, TRUE)

StaleThresholdMs == 7 * 24 * 60 * 60 * 1000

\* findStaleLeases: `missing` is the set of paths that do not exist on disk,
\* `busy` the set of ports the probe reports in use.  leasedAt is written by
\* toISOString and read back by new Date(...).getTime(): both keep the
\* millisecond, so a lease carries the clock value of its creation.
worktreeMissing(lease, missing) ==
  lease.worktreePath # <<>> /\ lease.worktreePath \in missing

\* The age test that lets every lease older than the threshold pass as stale.
olderThanThreshold_orEqual(lease, t) == t - lease.leasedAt >= StaleThresholdMs

olderThanThreshold(lease, t) == t - lease.leasedAt > StaleThresholdMs

\* The leases for which findStaleLeases calls isPortInUse.
probesLease(lease, missing, t) ==
  ~worktreeMissing(lease, missing) /\ olderThanThreshold(lease, t)

\* The staleness test without the check of the worktree path.
isStaleLease_ageOnly(lease, missing, busy, t) ==
  olderThanThreshold(lease, t) /\ lease.port \notin busy

\* The staleness test that does not ask the probe.
isStaleLease_noProbe(lease, missing, busy, t) ==
  \/ worktreeMissing(lease, missing)
  \/ olderThanThreshold(lease, t)

isStaleLease(lease, missing, busy, t) ==
  \/ worktreeMissing(lease, missing)
  \/ /\ probesLease(lease, missing, t)
     /\ lease.port \notin busy

staleReason(lease, missing) ==
  IF worktreeMissing(lease, missing) THEN "worktree path does not exist"
  ELSE "lease older than 7 days and port not in use"

findStaleLeases(registry, missing, busy, t) ==
  LET Stale(l) == isStaleLease(l, missing, busy, t)
  IN SelectSeq(registry.leases, Stale)

\* The list cleanup() returns: each stale lease with its reason.
staleReports(staleLeases, missing) ==
  [ i \in 1..Len(staleLeases) |->
      [lease |-> staleLeases[i], reason |-> staleReason(staleLeases[i], missing)] ]

probedLeases(registry, missing, t) ==
  { registry.leases[i] :
      i \in { j \in 1..Len(registry.leases) : probesLease(registry.leases[j], missing, t) } }

\* cleanup() that removes and saves in a dry run too.
cleanupBody_dryRunSaves(registry, isDryRun, missing, busy, t) ==
  LET staleLeases == findStaleLeases(registry, missing, busy, t)
      stalePorts == { staleLeases[i].port : i \in 1..Len(staleLeases) }
      after == removeStaleLeases(registry, stalePorts)
  IN [ Ok(0, 0, after, Len(staleLeases) > 0)
         EXCEPT !.staleLeases = staleReports(staleLeases, missing),
                !.probed = probedLeases(registry, missing, t) ]

cleanupBody(registry, isDryRun, missing, busy, t) ==
  LET staleLeases == findStaleLeases(registry, missing, busy, t)
      reported(outcome) ==
        [ outcome EXCEPT !.staleLeases = staleReports(staleLeases, missing),
                         !.probed = probedLeases(registry, missing, t) ]
  IN
  IF Len(staleLeases) = 0 THEN reported(Ok(0, 0, registry, FALSE))
  ELSE IF isDryRun THEN reported(Ok(0, 0, registry, FALSE))
  ELSE LET stalePorts == { staleLeases[i].port : i \in 1..Len(staleLeases) }
           after == removeStaleLeases(registry, stalePorts)
       IN reported(Ok(0, Len(registry.leases) - Len(after.leases), after, TRUE))

poolAddBody(registry, poolName, rangeStart, rangeEnd) ==
  IF hasPool(registry, poolName) THEN Err("PoolExists", registry)
  ELSE Ok(0, 0, addPool(registry, poolName, rangeStart, rangeEnd), TRUE)

\* `${poolName}-https`: the pool names of the model with the suffix appended.
withHttpsSuffix(poolName) ==
  CASE poolName = "frontend" -> "frontend-https"
    [] poolName = "backend" -> "backend-https"
    [] poolName = "storybook" -> "storybook-https"
    [] poolName = "custom" -> "custom-https"
    [] OTHER -> "-https"

\* The affected-lease check without the comparison against rangeEnd.
affectedLeases_lowerOnly(registry, poolName, rangeStart, rangeEnd) ==
  LET Affected(l) ==
        /\ (l.pool = poolName \/ l.pool = withHttpsSuffix(poolName))
        /\ l.port < rangeStart
  IN SelectSeq(registry.leases, Affected)

\* The affected-lease check that looks at the leases of the named pool only.
affectedLeases_exactOnly(registry, poolName, rangeStart, rangeEnd) ==
  LET Affected(l) ==
        /\ l.pool = poolName
        /\ (l.port < rangeStart \/ l.port > rangeEnd)
  IN SelectSeq(registry.leases, Affected)

affectedLeases(registry, poolName, rangeStart, rangeEnd) ==
  LET Affected(l) ==
        /\ (l.pool = poolName \/ l.pool = withHttpsSuffix(poolName))
        /\ (l.port < rangeStart \/ l.port > rangeEnd)
  IN SelectSeq(registry.leases, Affected)

\* poolUpdate() without the check of the leases.
poolUpdateBody_unchecked(registry, poolName, rangeStart, rangeEnd) ==
  IF ~hasPool(registry, poolName) THEN Err("PoolMissing", registry)
  ELSE Ok(0, 0, updatePool(registry, poolName, rangeStart, rangeEnd), TRUE)

poolUpdateBody(registry, poolName, rangeStart, rangeEnd) ==
  IF Len(affectedLeases(registry, poolName, rangeStart, rangeEnd)) > 0
  THEN Err("LeasesOutOfRange", registry)
  ELSE IF ~hasPool(registry, poolName) THEN Err("PoolMissing", registry)
  ELSE Ok(0, 0, updatePool(registry, poolName, rangeStart, rangeEnd), TRUE)

\* poolDelete() that saves before it looks at the lease count.
poolDeleteBody_savesFirst(registry, poolName) ==
  IF ~hasPool(registry, poolName) THEN Err("PoolMissing", registry)
  ELSE Ok(0, 0, deletePool(registry, poolName), TRUE)

poolDeleteBody(registry, poolName) ==
  IF ~hasPool(registry, poolName) THEN Err("PoolMissing", registry)
  ELSE LET leaseCount == Len(leasesInPool(registry, poolName))
           after == deletePool(registry, poolName)
       IN IF leaseCount > 0 THEN Err("PoolHasLeases", after)
          ELSE Ok(0, 0, after, TRUE)

poolClearBody(registry, poolName) ==
  IF ~hasPool(registry, poolName) THEN Err("PoolMissing", registry)
  ELSE LET after == clearPoolLeases(registry, poolName)
           removedCount == Len(registry.leases) - Len(after.leases)
       IN IF removedCount = 0 THEN Ok(0, 0, after, FALSE)
          ELSE Ok(0, removedCount, after, TRUE)

(***************************************************************************)
(* State.                                                                  *)
(***************************************************************************)
VARIABLES
  exists,     \* whether registry.json exists
  disk,       \* the registry document stored in registry.json
  marker,     \* the lock marker registry.json.lock
  now,        \* the clock, Date.now() in milliseconds
  pc,         \* where each process is in its invocation
  op,         \* the call each process is executing
  mem,        \* the registry each process holds in memory
  startTime,  \* startTime of acquireLock
  result,     \* what the call of each process returns or throws
  granted,    \* history: leases handed out and not explicitly removed since
  broke       \* history: this acquireLock call unlinked a marker that was held

vars == <<exists, disk, marker, now, pc, op, mem, startTime, result, granted, broke>>

NoRegistry ==
  [ version |-> "", pools |-> [n \in {} |-> 0], leases |-> <<>>, lastModified |-> 0 ]

NoMarker == [present |-> FALSE, mtime |-> 0, owner |-> NoProc]

NoCall ==
  [ name |-> "none", pool |-> "", tag |-> "", tagArg |-> <<>>, identifier |-> <<>>,
    worktreePath |-> <<>>, rangeStart |-> 0, rangeEnd |-> 0, flag |-> FALSE,
    port |-> 0 ]

\* What check() returns.
NoCheck ==
  [ leased |-> FALSE, inUse |-> FALSE, available |-> FALSE,
    identifier |-> <<>>, pool |-> "", probed |-> FALSE ]

NoResult ==
  [ status |-> "none", error |-> "", port |-> 0, removedCount |-> 0, saved |-> FALSE,
    staleLeases |-> <<>>, probed |-> {}, check |-> NoCheck ]

ResultOf(outcome) ==
  [ NoResult EXCEPT !.status = outcome.status, !.error = outcome.error,
                    !.port = outcome.port, !.removedCount = outcome.removedCount,
                    !.saved = outcome.save, !.staleLeases = outcome.staleLeases,
                    !.probed = outcome.probed ]

ErrorResult(error) == [NoResult EXCEPT !.status = "error", !.error = error]

\* Index of the first lease with the port, 0 when there is none.
RECURSIVE findPort(_, _, _)
findPort(leases, i, port) ==
  IF i > Len(leases) THEN 0
  ELSE IF leases[i].port = port THEN i
  ELSE findPort(leases, i + 1, port)

\* check() that asks the probe before it looks at the leases.
checkBody_probeFirst(registry, port, busy) ==
  LET i == findPort(registry.leases, 1, port) IN
  IF port \in busy
  THEN [NoCheck EXCEPT !.inUse = TRUE, !.probed = TRUE]
  ELSE IF i # 0
  THEN [NoCheck EXCEPT !.leased = TRUE, !.probed = TRUE,
                       !.identifier = registry.leases[i].identifier,
                       !.pool = registry.leases[i].pool]
  ELSE [NoCheck EXCEPT !.available = TRUE, !.probed = TRUE]

\* check() after getRegistry: `busy` is the set of ports the probe reports
\* in use.
checkBody(registry, port, busy) ==
  LET i == findPort(registry.leases, 1, port) IN
  IF i # 0
  THEN [NoCheck EXCEPT !.leased = TRUE,
                       !.identifier = registry.leases[i].identifier,
                       !.pool = registry.leases[i].pool]
  ELSE IF port \in busy
  THEN [NoCheck EXCEPT !.inUse = TRUE, !.probed = TRUE]
  ELSE [NoCheck EXCEPT !.available = TRUE, !.probed = TRUE]

OkResult == [NoResult EXCEPT !.status = "ok"]

(***************************************************************************)
(* port-manager.mjs : the exit code of the command-line process.           *)
(***************************************************************************)
EXIT_SUCCESS == 0
EXIT_PORT_UNAVAILABLE == 1
EXIT_POOL_EXHAUSTED == 2
EXIT_LOCK_TIMEOUT == 3
EXIT_INVALID_INPUT == 4

\* The handlers doLease, doRelease, ... catch what the API throws and exit
\* with their own code; doList and doCleanup have no catch, so their errors
\* reach the catch of main, which knows the lock timeout by its message, and
\* from there the last catch, which exits with 1.
exitCode(name, res) ==
  IF res.status # "error"
  THEN IF name = "check" /\ (res.check.leased \/ res.check.inUse)
       THEN EXIT_PORT_UNAVAILABLE ELSE EXIT_SUCCESS
  ELSE CASE name = "lease" ->
              IF res.error = "PoolExhausted" THEN EXIT_POOL_EXHAUSTED
              ELSE EXIT_INVALID_INPUT
         [] name \in {"release", "env"} -> EXIT_PORT_UNAVAILABLE
         [] name \in {"list", "cleanup"} ->
              IF res.error = "LockTimeout" THEN EXIT_LOCK_TIMEOUT ELSE 1
         [] OTHER -> EXIT_INVALID_INPUT

(***************************************************************************)
(* Environment: the directory each process is started in.                  *)
(***************************************************************************)
\* getGitRoot: process 1 runs inside a repository, process 2 outside of any.
getGitRoot(p) == IF p = 1 THEN <<"C", ":", "\\", "r">> ELSE Null

\* gitRoot.replace(/\\/g, '/').replace(/:/g, '')
RECURSIVE normalizePath(_)
normalizePath(path) ==
  IF path = <<>> THEN <<>>
  ELSE LET c == Head(path) IN
       IF c = ":" THEN normalizePath(Tail(path))
       ELSE IF c = "\\" THEN <<"/">> \o normalizePath(Tail(path))
       ELSE <<c>> \o normalizePath(Tail(path))

getAutoIdentifier(p) ==
  IF getGitRoot(p) = Null THEN Null ELSE normalizePath(getGitRoot(p))

(***************************************************************************)
(* Steps shared by the calls.                                              *)
(***************************************************************************)
\* A call that throws before it touches the lock or the registry.
Reject(p, name, error) ==
  /\ op' = [op EXCEPT ![p] = [NoCall EXCEPT !.name = name]]
  /\ result' = [result EXCEPT ![p] = ErrorResult(error)]
  /\ pc' = [pc EXCEPT ![p] = "done"]
  /\ UNCHANGED <<exists, disk, marker, now, mem, startTime, granted, broke>>

\* A call that reads the registry before it enters acquireLock.
EnterWithLock_loadsFirst(p, call) ==
  /\ op' = [op EXCEPT ![p] = call]
  /\ startTime' = [startTime EXCEPT ![p] = now]
  /\ pc' = [pc EXCEPT ![p] = "open"]
  /\ mem' = [mem EXCEPT ![p] = disk]
  /\ UNCHANGED <<exists, disk, marker, now, result, granted, broke>>

\* withLock(fn): enter acquireLock.
EnterWithLock(p, call) ==
  /\ op' = [op EXCEPT ![p] = call]
  /\ startTime' = [startTime EXCEPT ![p] = now]
  /\ pc' = [pc EXCEPT ![p] = "open"]
  /\ UNCHANGED <<exists, disk, marker, now, mem, result, granted, broke>>

\* A call that loads the registry without the lock.
EnterLockFree(p, call) ==
  /\ op' = [op EXCEPT ![p] = call]
  /\ pc' = [pc EXCEPT ![p] = "load"]
  /\ UNCHANGED <<exists, disk, marker, now, mem, startTime, result, granted, broke>>

Mutating == {"lease", "release", "cleanup", "poolAdd", "poolUpdate", "poolDelete", "poolClear"}

\* The calls that go on with the registry they loaded.
UsesRegistry == Mutating \cup {"check", "poolList", "env"}

\* The calls that are documented as read-only.
ReadOnly == {"list", "check", "poolList", "env"}

(***************************************************************************)
(* core-api.mjs : each method up to its first await on the lock or file.   *)
(***************************************************************************)
\* The registry document holds at most MaxLeases leases: a lease call that
\* could add one more is not started.
mayGrow(registry, pool, tag, identifier) ==
  /\ hasPool(registry, pool)
  /\ getExistingLease(registry, identifier, pool, tag) = 0
  /\ scanPorts(registry.pools[pool].rangeStart, registry.pools[pool].rangeEnd,
               getLeasedPorts(registry, pool), {}) # <<>>

lease(p, pool, tag, identifier, worktreePath) ==
  /\ pc[p] = "idle"
  /\ \/ Len(disk.leases) < MaxLeases
     \/ ~mayGrow(disk, pool, tag,
                 IF identifier = Null THEN getAutoIdentifier(p) ELSE identifier)
  /\ LET id == IF identifier = Null THEN getAutoIdentifier(p) ELSE identifier
         wt == IF worktreePath = Null THEN getGitRoot(p) ELSE worktreePath
     IN IF pool = "" THEN Reject(p, "lease", "PoolRequired")
        ELSE IF id = Null THEN Reject(p, "lease", "NoGitRepository")
        ELSE EnterWithLock(p, [NoCall EXCEPT !.name = "lease", !.pool = pool, !.tag = tag,
                                             !.identifier = id, !.worktreePath = wt])

release(p, tagArg, identifier) ==
  /\ pc[p] = "idle"
  /\ LET id == IF identifier = Null THEN getAutoIdentifier(p) ELSE identifier
     IN IF id = Null THEN Reject(p, "release", "NoGitRepository")
        ELSE EnterWithLock(p, [NoCall EXCEPT !.name = "release", !.tagArg = tagArg,
                                             !.identifier = id])

cleanup(p, isDryRun) ==
  /\ pc[p] = "idle"
  /\ EnterWithLock(p, [NoCall EXCEPT !.name = "cleanup", !.flag = isDryRun])

list(p) ==
  /\ pc[p] = "idle"
  /\ EnterLockFree(p, [NoCall EXCEPT !.name = "list"])

check(p, port) ==
  /\ pc[p] = "idle"
  /\ IF port = 0 THEN Reject(p, "check", "PortRequired")
     ELSE EnterLockFree(p, [NoCall EXCEPT !.name = "check", !.port = port])

env(p, identifier) ==
  /\ pc[p] = "idle"
  /\ LET id == IF identifier = Null THEN getAutoIdentifier(p) ELSE identifier
     IN IF id = Null THEN Reject(p, "env", "NoGitRepository")
        ELSE EnterLockFree(p, [NoCall EXCEPT !.name = "env", !.identifier = id])

\* poolList(): the empty pool name asks for all pools.
poolList(p, poolName) ==
  /\ pc[p] = "idle"
  /\ EnterLockFree(p, [NoCall EXCEPT !.name = "poolList", !.pool = poolName])

\* init() that does not look whether the registry file exists.
init_noExistsCheck(p, force) ==
  /\ pc[p] = "idle"
  /\ op' = [op EXCEPT ![p] = [NoCall EXCEPT !.name = "init", !.flag = force]]
  /\ pc' = [pc EXCEPT ![p] = "initWrite"]
  /\ UNCHANGED <<exists, disk, marker, now, mem, startTime, result, granted, broke>>

init(p, force) ==
  /\ pc[p] = "idle"
  /\ IF exists /\ ~force THEN Reject(p, "init", "RegistryExists")
     ELSE /\ op' = [op EXCEPT ![p] = [NoCall EXCEPT !.name = "init", !.flag = force]]
          /\ pc' = [pc EXCEPT ![p] = "initWrite"]
          /\ UNCHANGED <<exists, disk, marker, now, mem, startTime, result, granted, broke>>

\* poolAdd() without the comparison of rangeStart and rangeEnd.
poolAdd_noOrderCheck(p, poolName, rangeStart, rangeEnd) ==
  /\ pc[p] = "idle"
  /\ IF poolName = "" \/ rangeStart = 0 \/ rangeEnd = 0
     THEN Reject(p, "poolAdd", "RangeRequired")
     ELSE EnterWithLock(p, [NoCall EXCEPT !.name = "poolAdd", !.pool = poolName,
                                          !.rangeStart = rangeStart, !.rangeEnd = rangeEnd])

poolAdd(p, poolName, rangeStart, rangeEnd) ==
  /\ pc[p] = "idle"
  /\ IF poolName = "" \/ rangeStart = 0 \/ rangeEnd = 0
     THEN Reject(p, "poolAdd", "RangeRequired")
     ELSE IF rangeStart >= rangeEnd THEN Reject(p, "poolAdd", "RangeOrder")
     ELSE EnterWithLock(p, [NoCall EXCEPT !.name = "poolAdd", !.pool = poolName,
                                          !.rangeStart = rangeStart, !.rangeEnd = rangeEnd])

poolUpdate(p, poolName, rangeStart, rangeEnd) ==
  /\ pc[p] = "idle"
  /\ IF poolName = "" \/ rangeStart = 0 \/ rangeEnd = 0
     THEN Reject(p, "poolUpdate", "RangeRequired")
     ELSE IF rangeStart >= rangeEnd THEN Reject(p, "poolUpdate", "RangeOrder")
     ELSE EnterWithLock(p, [NoCall EXCEPT !.name = "poolUpdate", !.pool = poolName,
                                          !.rangeStart = rangeStart, !.rangeEnd = rangeEnd])

poolDelete(p, poolName) ==
  /\ pc[p] = "idle"
  /\ IF poolName = "" THEN Reject(p, "poolDelete", "PoolRequired")
     ELSE EnterWithLock(p, [NoCall EXCEPT !.name = "poolDelete", !.pool = poolName])

poolClear(p, poolName) ==
  /\ pc[p] = "idle"
  /\ IF poolName = "" THEN Reject(p, "poolClear", "PoolRequired")
     ELSE EnterWithLock(p, [NoCall EXCEPT !.name = "poolClear", !.pool = poolName])

(***************************************************************************)
(* lock.mjs : acquireLock, one filesystem call at a time.                  *)
(***************************************************************************)
\* open(LOCK_PATH, O_CREAT | O_EXCL | O_WRONLY)
TryOpen(p) ==
  /\ pc[p] = "open"
  /\ IF ~marker.present
     THEN /\ marker' = [present |-> TRUE, mtime |-> now, owner |-> p]
          /\ pc' = [pc EXCEPT ![p] = "load"]
          /\ startTime' = [startTime EXCEPT ![p] = 0]
          /\ broke' = [broke EXCEPT ![p] = FALSE]
     ELSE /\ pc' = [pc EXCEPT ![p] = "stat"]
          /\ UNCHANGED <<marker, startTime, broke>>
  /\ UNCHANGED <<exists, disk, now, op, mem, result, granted>>

\* A staleness test that never finds a marker stale.
isStaleLock_never(lockAge) == FALSE

isStaleLock(lockAge) == lockAge > STALE_LOCK_AGE_MS

\* The timeout check and the backoff that follow a marker that stays.
TimeoutOrRetry(p) ==
  IF now - startTime[p] > DefaultTimeoutMs
  THEN /\ result' = [result EXCEPT ![p] = ErrorResult("LockTimeout")]
       /\ pc' = [pc EXCEPT ![p] = "done"]
       /\ startTime' = [startTime EXCEPT ![p] = 0]
  ELSE /\ pc' = [pc EXCEPT ![p] = "open"]
       /\ UNCHANGED <<result, startTime>>

\* stat(LOCK_PATH) after EEXIST
Stat(p) ==
  /\ pc[p] = "stat"
  /\ IF ~marker.present
     THEN /\ pc' = [pc EXCEPT ![p] = "open"]
          /\ UNCHANGED <<result, startTime>>
     ELSE IF isStaleLock(now - marker.mtime)
     THEN /\ pc' = [pc EXCEPT ![p] = "unlink"]
          /\ UNCHANGED <<result, startTime>>
     ELSE TimeoutOrRetry(p)
  /\ UNCHANGED <<exists, disk, marker, now, op, mem, granted, broke>>

\* The marker at LOCK_PATH was created by another process, which is between
\* its acquireLock and its releaseLock.
HeldByOther(p) ==
  /\ marker.present /\ marker.owner # p /\ marker.owner \in Procs
  /\ pc[marker.owner] \in {"load", "initWrite", "body", "unlock"}
  /\ op[marker.owner].name \in Mutating

\* unlink(LOCK_PATH) of a marker that was seen stale
Unlink(p) ==
  /\ pc[p] = "unlink"
  /\ IF marker.present
     THEN /\ marker' = NoMarker
          /\ pc' = [pc EXCEPT ![p] = "open"]
          /\ broke' = [broke EXCEPT ![p] = @ \/ HeldByOther(p)]
          /\ UNCHANGED <<result, startTime>>
     ELSE /\ TimeoutOrRetry(p)
          /\ UNCHANGED <<marker, broke>>
  /\ UNCHANGED <<exists, disk, now, op, mem, granted>>

\* A finally block that returns without unlinking the marker.
Unlock_keepsMarker(p) ==
  /\ pc[p] = "unlock"
  /\ pc' = [pc EXCEPT ![p] = "idle"]
  /\ op' = [op EXCEPT ![p] = NoCall]
  /\ result' = [result EXCEPT ![p] = NoResult]
  /\ UNCHANGED <<exists, disk, marker, now, mem, startTime, granted, broke>>

\* A releaseLock that rethrows the ENOENT of unlink.
Unlock_throwsWhenAbsent(p) ==
  /\ pc[p] = "unlock"
  /\ marker' = NoMarker
  /\ IF marker.present
     THEN /\ pc' = [pc EXCEPT ![p] = "idle"]
          /\ op' = [op EXCEPT ![p] = NoCall]
          /\ result' = [result EXCEPT ![p] = NoResult]
     ELSE /\ pc' = [pc EXCEPT ![p] = "done"]
          /\ result' = [result EXCEPT ![p] = ErrorResult("ENOENT")]
          /\ UNCHANGED op
  /\ UNCHANGED <<exists, disk, now, mem, startTime, granted, broke>>

\* releaseLock in the finally block of withLock; the call then returns or
\* rethrows and the process exits.
Unlock(p) ==
  /\ pc[p] = "unlock"
  /\ marker' = NoMarker
  /\ pc' = [pc EXCEPT ![p] = "idle"]
  /\ op' = [op EXCEPT ![p] = NoCall]
  /\ result' = [result EXCEPT ![p] = NoResult]
  /\ UNCHANGED <<exists, disk, now, mem, startTime, granted, broke>>

(***************************************************************************)
(* registry.mjs : getRegistry and the first-use initialisation.            *)
(***************************************************************************)
Load(p) ==
  /\ pc[p] = "load"
  /\ IF ~exists
     THEN /\ pc' = [pc EXCEPT ![p] = "initWrite"]
          /\ UNCHANGED <<mem, result>>
     ELSE IF op[p].name \in UsesRegistry
     THEN /\ mem' = [mem EXCEPT ![p] = disk]
          /\ pc' = [pc EXCEPT ![p] = "body"]
          /\ UNCHANGED result
     ELSE /\ result' = [result EXCEPT ![p] = OkResult]
          /\ pc' = [pc EXCEPT ![p] = "done"]
          /\ UNCHANGED mem
  /\ UNCHANGED <<exists, disk, marker, now, op, startTime, granted, broke>>

InitWrite(p) ==
  /\ pc[p] = "initWrite"
  /\ exists' = TRUE
  /\ disk' = initRegistry(now)
  /\ IF op[p].name \in UsesRegistry
     THEN /\ mem' = [mem EXCEPT ![p] = initRegistry(now)]
          /\ pc' = [pc EXCEPT ![p] = "body"]
          /\ UNCHANGED result
     ELSE /\ result' = [result EXCEPT ![p] = OkResult]
          /\ pc' = [pc EXCEPT ![p] = "done"]
          /\ UNCHANGED mem
  /\ granted' = IF op[p].name = "init" THEN {} ELSE granted
  /\ UNCHANGED broke
  /\ UNCHANGED <<marker, now, op, startTime>>

(***************************************************************************)
(* core-api.mjs : the function each method runs under the lock.            *)
(***************************************************************************)
Commit(p, outcome) ==
  /\ exists' = (exists \/ outcome.save)
  /\ disk' = IF outcome.save THEN saveRegistry(outcome.registry, now) ELSE disk
  /\ mem' = [mem EXCEPT ![p] = NoRegistry]
  /\ result' = [result EXCEPT ![p] = ResultOf(outcome)]
  /\ pc' = [pc EXCEPT ![p] = "unlock"]
  /\ UNCHANGED <<marker, now, op, startTime, broke>>

Grant(call, port) ==
  [identifier |-> call.identifier, pool |-> call.pool, tag |-> call.tag, port |-> port]

SameTriple(g, call) ==
  g.identifier = call.identifier /\ g.pool = call.pool /\ g.tag = call.tag

LeaseRun(p, busy) ==
  /\ pc[p] = "body" /\ op[p].name = "lease"
  /\ LET outcome == leaseBody(mem[p], op[p].pool, op[p].tag, op[p].identifier,
                              op[p].worktreePath, busy, now)
     IN /\ Commit(p, outcome)
        /\ granted' = IF outcome.status = "ok"
                      THEN { g \in granted : ~SameTriple(g, op[p]) }
                             \cup {Grant(op[p], outcome.port)}
                      ELSE granted

ReleaseRun(p) ==
  /\ pc[p] = "body" /\ op[p].name = "release"
  /\ LET outcome == releaseBody(mem[p], op[p].tagArg, op[p].identifier)
     IN /\ Commit(p, outcome)
        /\ granted' = IF outcome.status = "ok"
                      THEN { g \in granted :
                               ~(/\ g.identifier = op[p].identifier
                                 /\ (op[p].tagArg = <<>> \/ g.tag = op[p].tagArg[1])) }
                      ELSE granted

CleanupRun(p, missing, busy) ==
  /\ pc[p] = "body" /\ op[p].name = "cleanup"
  /\ LET outcome == cleanupBody(mem[p], op[p].flag, missing, busy, now)
         staleLeases == findStaleLeases(mem[p], missing, busy, now)
         stalePorts == { staleLeases[i].port : i \in 1..Len(staleLeases) }
     IN /\ Commit(p, outcome)
        /\ granted' = IF outcome.save
                      THEN { g \in granted : g.port \notin stalePorts }
                      ELSE granted

PoolAddRun(p) ==
  /\ pc[p] = "body" /\ op[p].name = "poolAdd"
  /\ Commit(p, poolAddBody(mem[p], op[p].pool, op[p].rangeStart, op[p].rangeEnd))
  /\ UNCHANGED granted

PoolUpdateRun(p) ==
  /\ pc[p] = "body" /\ op[p].name = "poolUpdate"
  /\ Commit(p, poolUpdateBody(mem[p], op[p].pool, op[p].rangeStart, op[p].rangeEnd))
  /\ UNCHANGED granted

PoolDeleteRun(p) ==
  /\ pc[p] = "body" /\ op[p].name = "poolDelete"
  /\ Commit(p, poolDeleteBody(mem[p], op[p].pool))
  /\ UNCHANGED granted

PoolClearRun(p) ==
  /\ pc[p] = "body" /\ op[p].name = "poolClear"
  /\ LET outcome == poolClearBody(mem[p], op[p].pool)
     IN /\ Commit(p, outcome)
        /\ granted' = IF outcome.status = "ok"
                      THEN { g \in granted : g.pool # op[p].pool }
                      ELSE granted

\* What the function under the lock would return for the call of process p.
BodyOutcome(p, missing, busy) ==
  CASE op[p].name = "lease" ->
         leaseBody(mem[p], op[p].pool, op[p].tag, op[p].identifier,
                   op[p].worktreePath, busy, now)
    [] op[p].name = "release" -> releaseBody(mem[p], op[p].tagArg, op[p].identifier)
    [] op[p].name = "cleanup" -> cleanupBody(mem[p], op[p].flag, missing, busy, now)
    [] op[p].name = "poolAdd" ->
         poolAddBody(mem[p], op[p].pool, op[p].rangeStart, op[p].rangeEnd)
    [] op[p].name = "poolUpdate" ->
         poolUpdateBody(mem[p], op[p].pool, op[p].rangeStart, op[p].rangeEnd)
    [] op[p].name = "poolDelete" -> poolDeleteBody(mem[p], op[p].pool)
    [] OTHER -> poolClearBody(mem[p], op[p].pool)

\* saveRegistry throws: writeFile is refused and the file stays as it was.
\* The error leaves the function under the lock through the finally block.
SaveFails(p, missing, busy) ==
  /\ pc[p] = "body" /\ op[p].name \in Mutating
  /\ BodyOutcome(p, missing, busy).save
  /\ result' = [result EXCEPT ![p] = ErrorResult("SaveFailed")]
  /\ mem' = [mem EXCEPT ![p] = NoRegistry]
  /\ pc' = [pc EXCEPT ![p] = "unlock"]
  /\ UNCHANGED <<exists, disk, marker, now, op, startTime, granted, broke>>

\* The process is killed while it holds the lock: the marker stays behind.
Crash(p) ==
  /\ pc[p] \in {"load", "initWrite", "body", "unlock"} /\ op[p].name \in Mutating
  /\ marker.present /\ marker.owner = p
  /\ pc' = [pc EXCEPT ![p] = "off"]
  /\ op' = [op EXCEPT ![p] = NoCall]
  /\ mem' = [mem EXCEPT ![p] = NoRegistry]
  /\ result' = [result EXCEPT ![p] = NoResult]
  /\ UNCHANGED <<exists, disk, marker, now, startTime, granted, broke>>

\* check() after getRegistry; it holds no lock.
CheckRun(p, busy) ==
  /\ pc[p] = "body" /\ op[p].name = "check"
  /\ result' = [result EXCEPT ![p] =
                  [OkResult EXCEPT !.check = checkBody(mem[p], op[p].port, busy)]]
  /\ mem' = [mem EXCEPT ![p] = NoRegistry]
  /\ pc' = [pc EXCEPT ![p] = "done"]
  /\ UNCHANGED <<exists, disk, marker, now, op, startTime, granted, broke>>

\* env() after getRegistry: it throws when the identifier has no lease.
EnvRun(p) ==
  /\ pc[p] = "body" /\ op[p].name = "env"
  /\ result' = [result EXCEPT ![p] =
                  IF \E i \in 1..Len(mem[p].leases) :
                       mem[p].leases[i].identifier = op[p].identifier
                  THEN OkResult ELSE ErrorResult("NoLeases")]
  /\ mem' = [mem EXCEPT ![p] = NoRegistry]
  /\ pc' = [pc EXCEPT ![p] = "done"]
  /\ UNCHANGED <<exists, disk, marker, now, op, startTime, granted, broke>>

\* poolList() after getRegistry: it throws when the named pool is unknown.
PoolListRun(p) ==
  /\ pc[p] = "body" /\ op[p].name = "poolList"
  /\ result' = [result EXCEPT ![p] =
                  IF op[p].pool # "" /\ ~hasPool(mem[p], op[p].pool)
                  THEN ErrorResult("UnknownPool") ELSE OkResult]
  /\ mem' = [mem EXCEPT ![p] = NoRegistry]
  /\ pc' = [pc EXCEPT ![p] = "done"]
  /\ UNCHANGED <<exists, disk, marker, now, op, startTime, granted, broke>>

\* A call that did not take the lock returns or throws and the process exits.
Return(p) ==
  /\ pc[p] = "done"
  /\ pc' = [pc EXCEPT ![p] = "idle"]
  /\ op' = [op EXCEPT ![p] = NoCall]
  /\ result' = [result EXCEPT ![p] = NoResult]
  /\ broke' = [broke EXCEPT ![p] = FALSE]
  /\ UNCHANGED <<exists, disk, marker, now, mem, startTime, granted>>

(***************************************************************************)
(* Environment: time passes.                                               *)
(***************************************************************************)
ClockSteps == {STALE_LOCK_AGE_MS + 1}

Tick(d) ==
  /\ now + d <= MaxNow
  /\ now' = now + d
  /\ UNCHANGED <<exists, disk, marker, pc, op, mem, startTime, result, granted, broke>>

\* Seven days pass between two invocations, or one millisecond more.
AgeSteps == {StaleThresholdMs, StaleThresholdMs + 1}

Elapse(d) ==
  /\ \A p \in Procs : pc[p] \in {"idle", "off"}
  /\ now + d <= MaxAge
  /\ now' = now + d
  /\ UNCHANGED <<exists, disk, marker, pc, op, mem, startTime, result, granted, broke>>

(***************************************************************************)
(* Specifications.                                                         *)
(***************************************************************************)
IdA == <<"a">>
IdB == <<"b">>
PathW == <<"w">>

AllCalls == {"lease", "release", "cleanup", "list", "check", "env", "init", "poolList",
             "poolAdd", "poolUpdate", "poolDelete", "poolClear"}

\* Arguments and environment answers of the runs with one invocation at a time.
SeqArgs ==
  [ calls |-> AllCalls,
    pools |-> {"frontend", "custom", ""},
    tags |-> {"", "http"},
    ids |-> {IdA, Null},
    paths |-> {Null},
    ranges |-> {<<3300, 3301>>, <<-1, 1>>, <<0, 1>>, <<1, 1>>},
    busy |-> {{}, {3300}, {-1}, 3300..3499},
    missing |-> {{}, {PathW}},
    flags |-> BOOLEAN,
    ports |-> {0, 3300, 3301} ]

\* Arguments and environment answers of the concurrent runs.
ConcArgs(p) ==
  [ calls |-> IF p = 1 THEN AllCalls ELSE {"lease", "list", "init"},
    pools |-> {"frontend"},
    tags |-> {""},
    ids |-> IF p = 1 THEN {IdA} ELSE {IdA, IdB},
    paths |-> {Null},
    ranges |-> {<<3300, 3301>>},
    busy |-> {{}},
    missing |-> {{}},
    flags |-> IF p = 1 THEN {FALSE} ELSE {TRUE},
    ports |-> {3300} ]

Call(p, A) ==
  \/ /\ "lease" \in A.calls
     /\ \E pool \in A.pools, tag \in A.tags, id \in A.ids, path \in A.paths :
          lease(p, pool, tag, id, path)
  \/ /\ "release" \in A.calls
     /\ \E tagArg \in {<<>>} \cup { <<t>> : t \in A.tags }, id \in A.ids :
          release(p, tagArg, id)
  \/ /\ "cleanup" \in A.calls
     /\ \E f \in A.flags : cleanup(p, f)
  \/ /\ "list" \in A.calls
     /\ list(p)
  \/ /\ "check" \in A.calls
     /\ \E port \in A.ports : check(p, port)
  \/ /\ "env" \in A.calls
     /\ \E id \in A.ids : env(p, id)
  \/ /\ "poolList" \in A.calls
     /\ \E pool \in A.pools : poolList(p, pool)
  \/ /\ "init" \in A.calls
     /\ \E f \in A.flags : init(p, f)
  \/ /\ "poolAdd" \in A.calls
     /\ \E pool \in A.pools, r \in A.ranges : poolAdd(p, pool, r[1], r[2])
  \/ /\ "poolUpdate" \in A.calls
     /\ \E pool \in A.pools, r \in A.ranges : poolUpdate(p, pool, r[1], r[2])
  \/ /\ "poolDelete" \in A.calls
     /\ \E pool \in A.pools : poolDelete(p, pool)
  \/ /\ "poolClear" \in A.calls
     /\ \E pool \in A.pools : poolClear(p, pool)

\* The steps of a call once it has started.  Stat and Unlink are the steps of
\* acquireLock that follow EEXIST.
Run(p, A) ==
  \/ TryOpen(p)
  \/ Load(p)
  \/ InitWrite(p)
  \/ \E busy \in A.busy : LeaseRun(p, busy)
  \/ ReleaseRun(p)
  \/ \E missing \in A.missing, busy \in A.busy : CleanupRun(p, missing, busy)
  \/ PoolAddRun(p)
  \/ PoolUpdateRun(p)
  \/ PoolDeleteRun(p)
  \/ PoolClearRun(p)
  \/ \E busy \in A.busy : CheckRun(p, busy)
  \/ EnvRun(p)
  \/ PoolListRun(p)
  \/ \E missing \in A.missing, busy \in A.busy : SaveFails(p, missing, busy)
  \/ Unlock(p)
  \/ Return(p)

InitWith(running) ==
  /\ exists = FALSE
  /\ disk = NoRegistry
  /\ marker = NoMarker
  /\ now = 0
  /\ pc = [p \in Procs |-> IF p \in running THEN "idle" ELSE "off"]
  /\ op = [p \in Procs |-> NoCall]
  /\ mem = [p \in Procs |-> NoRegistry]
  /\ startTime = [p \in Procs |-> 0]
  /\ result = [p \in Procs |-> NoResult]
  /\ granted = {}
  /\ broke = [p \in Procs |-> FALSE]

\* Invocations run one at a time, back to back: the marker is never found
\* present, so open never fails with EEXIST, and no time passes in between.
Init == InitWith({1})

Next == \E p \in Procs : Call(p, SeqArgs) \/ Run(p, SeqArgs)

Spec == Init /\ [][Next]_vars

\* Two invocations run concurrently.
ConcInit == InitWith(Procs)

ConcNext ==
  \/ \E p \in Procs : Call(p, ConcArgs(p)) \/ Run(p, ConcArgs(p)) \/ Stat(p) \/ Unlink(p)
  \/ \E d \in ClockSteps : Tick(d)

ConcSpec == ConcInit /\ [][ConcNext]_vars

\* A holder is killed inside withLock and the other process acquires.  An
\* awaited filesystem call of acquireLock completes and the function resumes.
RecoveryInit == InitWith(Procs)

RecoveryNext ==
  \/ \E p \in Procs :
        \/ lease(p, "frontend", "", IF p = 1 THEN IdA ELSE IdB, Null)
        \/ TryOpen(p)
        \/ Stat(p)
        \/ Unlink(p)
        \/ Load(p)
        \/ InitWrite(p)
        \/ LeaseRun(p, {})
        \/ Unlock(p)
        \/ Return(p)
  \/ Crash(1)
  \/ \E d \in ClockSteps : Tick(d)

RecoverySpec ==
  /\ RecoveryInit /\ [][RecoveryNext]_vars
  /\ WF_vars(TryOpen(2)) /\ WF_vars(Stat(2)) /\ WF_vars(Unlink(2))

\* Leases grow old: a process outside of any repository leases ports with
\* and without a worktree path, days pass, and cleanup runs.
AgeArgs ==
  [ pools |-> {"frontend", "frontend-https"},
    tags |-> {"", "http"},
    paths |-> {Null, PathW},
    busy |-> {{}, {3300}},
    missing |-> {{}, {PathW}},
    flags |-> BOOLEAN ]

CleanupInit == InitWith({2})

CleanupNext ==
  \/ \E pool \in AgeArgs.pools, tag \in AgeArgs.tags, path \in AgeArgs.paths :
       lease(2, pool, tag, IdA, path)
  \/ \E f \in AgeArgs.flags : cleanup(2, f)
  \/ poolAdd(2, "frontend-https", 3300, 3301)
  \/ \E tagArg \in {<<>>, <<"http">>} : release(2, tagArg, IdA)
  \/ \E pool \in AgeArgs.pools : poolUpdate(2, pool, 3301, 3302)
  \/ poolDelete(2, "frontend-https")
  \/ poolClear(2, "frontend")
  \/ init(2, TRUE)
  \/ TryOpen(2)
  \/ Load(2)
  \/ InitWrite(2)
  \/ \E busy \in AgeArgs.busy : LeaseRun(2, busy)
  \/ \E missing \in AgeArgs.missing, busy \in AgeArgs.busy : CleanupRun(2, missing, busy)
  \/ PoolAddRun(2)
  \/ ReleaseRun(2)
  \/ PoolUpdateRun(2)
  \/ PoolDeleteRun(2)
  \/ PoolClearRun(2)
  \/ Unlock(2)
  \/ \E d \in AgeSteps : Elapse(d)

CleanupSpec == CleanupInit /\ [][CleanupNext]_vars

(***************************************************************************)
(* Properties.                                                             *)
(***************************************************************************)
\* A process is in the critical section of withLock from its successful open
\* of the marker until its releaseLock.
InCriticalSection(p) ==
  pc[p] \in {"load", "initWrite", "body", "unlock"} /\ op[p].name \in Mutating

LeaseOnDisk(g) ==
  \E i \in 1..Len(disk.leases) :
    /\ disk.leases[i].identifier = g.identifier
    /\ disk.leases[i].pool = g.pool
    /\ disk.leases[i].tag = g.tag
    /\ disk.leases[i].port = g.port

LeaseReturned(p) ==
  pc[p] = "unlock" /\ op[p].name = "lease" /\ result[p].status = "ok"

\* C1: at most one process at a time is between its successful acquireLock
\* and its releaseLock, whatever the interleaving and however much time passes.
C1_MutualExclusion ==
  \A p \in Procs, q \in Procs :
    p # q => ~(InCriticalSection(p) /\ InCriticalSection(q))

\* C2: a lease handed out by a successful lease() is in the persisted registry
\* until a release, cleanup, poolClear or init removes it.
C2_NoLostUpdates == \A g \in granted : LeaseOnDisk(g)

\* C3: two lease() calls in progress at the same time, on the same pool and
\* with different (identifier, tag), never both receive the same port.
C3_ConcurrentLeasesDiffer ==
  \A p \in Procs, q \in Procs :
    ( /\ p # q
      /\ LeaseReturned(p) /\ LeaseReturned(q)
      /\ op[p].pool = op[q].pool
      /\ <<op[p].identifier, op[p].tag>> # <<op[q].identifier, op[q].tag>> )
    => result[p].port # result[q].port

\* C4: the persisted registry holds at most one lease for each triple
\* (identifier, pool, tag), in every state reached by interleaved calls.
C4_OneLeasePerTriple ==
  \A i \in 1..Len(disk.leases), j \in 1..Len(disk.leases) :
    ( /\ disk.leases[i].identifier = disk.leases[j].identifier
      /\ disk.leases[i].pool = disk.leases[j].pool
      /\ disk.leases[i].tag = disk.leases[j].tag )
    => i = j

\* Two overlapping lease() calls for the same triple have both returned while
\* the registry holds leases.
C4_Witness ==
  /\ LeaseReturned(1) /\ LeaseReturned(2)
  /\ op[1].identifier = op[2].identifier
  /\ op[1].pool = op[2].pool
  /\ op[1].tag = op[2].tag
  /\ Len(disk.leases) >= 1

InLeases(l, leases) == \E j \in 1..Len(leases) : leases[j] = l

\* The ports of the pool of a lease() call that are neither leased in that
\* pool nor reported in use by the probe.
FreePorts(registry, pool, busy) ==
  { q \in registry.pools[pool].rangeStart..registry.pools[pool].rangeEnd :
      q \notin getLeasedPorts(registry, pool) /\ q \notin busy }

\* A lease() call that runs on a registry with its pool and without a lease
\* for its triple.
NewLeaseRun(p, busy) ==
  /\ LeaseRun(p, busy)
  /\ hasPool(mem[p], op[p].pool)
  /\ getExistingLease(mem[p], op[p].identifier, op[p].pool, op[p].tag) = 0

\* C5: a lease() call for a triple that was leased before and not released,
\* cleaned up or cleared since returns the port of the first call, and the
\* registry holds exactly one lease for the triple.
C5_IdempotentLease ==
  [][ \A p \in Procs :
        (pc[p] = "body" /\ op[p].name = "lease" /\ pc'[p] = "unlock") =>
          \A g \in granted :
            SameTriple(g, op[p]) =>
              /\ result'[p].status = "ok"
              /\ result'[p].port = g.port
              /\ Cardinality({ i \in 1..Len(disk'.leases) :
                                 SameTriple(disk'.leases[i], op[p]) }) = 1 ]_vars

\* A lease() call has returned the port of a lease it found in the registry.
C5_Witness ==
  \E p \in Procs :
    /\ LeaseReturned(p) /\ ~result[p].saved
    /\ Len(disk.leases) >= 2

\* C6: no two leases of the persisted registry share a port, in whatever
\* pools they are.
C6_PortsUniqueRegistryWide ==
  \A i \in 1..Len(disk.leases), j \in 1..Len(disk.leases) :
    disk.leases[i].port = disk.leases[j].port => i = j

\* C7: when there is no lease for the triple, lease() returns the smallest
\* port of the pool's range that is neither leased in the pool nor in use.
C7_LowestFreePort ==
  [][ \A p \in Procs, busy \in SeqArgs.busy :
        NewLeaseRun(p, busy) =>
          LET free == FreePorts(mem[p], op[p].pool, busy)
          IN free # {} =>
               /\ result'[p].status = "ok"
               /\ \A q \in free : result'[p].port <= q
               /\ result'[p].port \in free ]_vars

\* C8: a port returned by a successful lease() lies within the range of the
\* requested pool, for a new lease and for an existing one.
C8_RangeContainment ==
  \A p \in Procs :
    LeaseReturned(p) =>
      /\ hasPool(disk, op[p].pool)
      /\ disk.pools[op[p].pool].rangeStart <= result[p].port
      /\ result[p].port <= disk.pools[op[p].pool].rangeEnd

\* lease() has returned the port of an existing lease of the frontend pool
\* after the range of the pool was updated.
C8_Witness ==
  \E p \in Procs :
    /\ LeaseReturned(p) /\ ~result[p].saved
    /\ op[p].pool = "frontend"
    /\ hasPool(disk, "frontend")
    /\ disk.pools["frontend"].rangeEnd = 3301

\* C9: when every port of the pool's range is leased in the pool or reported
\* in use, lease() for a new triple fails with pool exhausted and the
\* persisted registry is unchanged.
C9_ExhaustionLeavesRegistry ==
  [][ \A p \in Procs, busy \in SeqArgs.busy :
        (NewLeaseRun(p, busy) /\ FreePorts(mem[p], op[p].pool, busy) = {}) =>
          /\ result'[p].status = "error"
          /\ result'[p].error = "PoolExhausted"
          /\ disk' = disk
          /\ exists' = exists ]_vars

\* lease() has failed with pool exhausted on a pool whose whole range is leased.
C9_Witness ==
  \E p \in Procs :
    /\ pc[p] = "unlock" /\ op[p].name = "lease"
    /\ result[p].error = "PoolExhausted"
    /\ hasPool(disk, op[p].pool)
    /\ \A q \in disk.pools[op[p].pool].rangeStart..disk.pools[op[p].pool].rangeEnd :
         q \in getLeasedPorts(disk, op[p].pool)

TagPortsDistinct ==
  \A i \in 1..Len(disk.leases), j \in 1..Len(disk.leases) :
    ( /\ disk.leases[i].identifier = disk.leases[j].identifier
      /\ disk.leases[i].pool = disk.leases[j].pool
      /\ disk.leases[i].tag # disk.leases[j].tag )
    => disk.leases[i].port # disk.leases[j].port

\* C10: the leases of one identifier in one pool under different tags have
\* different ports, and a release by tag removes the leases of the identifier
\* with that tag and leaves its leases with any other tag as they were.
C10_TagIsolation ==
  [][ /\ TagPortsDistinct'
      /\ \A p \in Procs :
           ( /\ pc[p] = "body" /\ op[p].name = "release" /\ op[p].tagArg # <<>>
             /\ pc'[p] = "unlock" /\ result'[p].status = "ok" ) =>
             /\ \A i \in 1..Len(disk.leases) :
                  LET l == disk.leases[i] IN
                  IF l.identifier = op[p].identifier /\ l.tag = op[p].tagArg[1]
                  THEN ~InLeases(l, disk'.leases)
                  ELSE InLeases(l, disk'.leases)
             /\ Len(disk'.leases) = Len(disk.leases) - result'[p].removedCount
             /\ result'[p].removedCount >= 1 ]_vars

\* A release by tag has removed one lease of an identifier and the lease of
\* the same identifier and pool under the other tag is in the registry.
C10_Witness ==
  \E p \in Procs :
    /\ pc[p] = "unlock" /\ op[p].name = "release" /\ result[p].status = "ok"
    /\ op[p].tagArg = <<"http">>
    /\ result[p].removedCount = 1
    /\ \E i \in 1..Len(disk.leases) :
         /\ disk.leases[i].identifier = op[p].identifier
         /\ disk.leases[i].tag = ""

\* The leases a release() call is about: those of its identifier, and of its
\* tag when a tag is supplied.
ReleaseMatches(l, call) ==
  /\ l.identifier = call.identifier
  /\ (call.tagArg = <<>> \/ l.tag = call.tagArg[1])

ReleaseReturns(p) ==
  /\ pc[p] = "body" /\ op[p].name = "release"
  /\ pc'[p] = "unlock" /\ result'[p].error # "SaveFailed"

\* C11: release() without a tag removes every lease of the identifier, of any
\* tag and pool; release() with a tag, the empty one included, removes the
\* leases of the identifier with exactly that tag; all other leases stay as
\* they were and in their order, and removedCount is the number removed.
C11_TriStateRelease ==
  [][ \A p \in Procs :
        ReleaseReturns(p) =>
          LET Stays(l) == ~ReleaseMatches(l, op[p])
              n == Cardinality({ i \in 1..Len(disk.leases) :
                                   ReleaseMatches(disk.leases[i], op[p]) })
          IN n > 0 =>
               /\ result'[p].status = "ok"
               /\ disk'.leases = SelectSeq(disk.leases, Stays)
               /\ result'[p].removedCount = n ]_vars

\* A release without a tag has removed the untagged and the tagged lease of
\* its identifier.
C11_Witness ==
  \E p \in Procs :
    /\ pc[p] = "unlock" /\ op[p].name = "release" /\ result[p].status = "ok"
    /\ op[p].tagArg = <<>>
    /\ result[p].removedCount = 2

C13_GuaranteedRelease ==
  /\ [](\A p \in Procs : (marker.present /\ marker.owner = p) => InCriticalSection(p))
  /\ [][ \A p \in Procs :
          /\ (pc[p] = "body" /\ op[p].name \in Mutating /\ pc'[p] # "body")
               => (pc'[p] = "unlock" /\ result'[p].status \in {"ok", "error"})
          /\ (pc[p] = "unlock" /\ pc'[p] # "unlock")
               => (~marker'.present /\ pc'[p] = "idle") ]_vars

\* poolDelete has thrown on a pool with leases and holds the marker, about to
\* run the finally block, while the other process waits for the lock.
C13_Witness ==
  /\ pc[1] = "unlock" /\ op[1].name = "poolDelete"
  /\ result[1].error = "PoolHasLeases"
  /\ marker.present /\ marker.owner = 1
  /\ pc[2] = "stat"

\* C14: an acquireLock that has not obtained the marker and whose elapsed time
\* exceeds the timeout does not go back to another open attempt after a failed
\* one, whatever the other process did with the marker in between.
C14_BoundedAcquisition ==
  [][ \A p \in Procs :
        (pc[p] = "stat" /\ pc'[p] = "open") =>
          now - startTime[p] <= DefaultTimeoutMs ]_vars

\* The holder was killed and the other process has found its marker older
\* than 60 seconds.
SeesStaleMarker(p) ==
  /\ pc[p] = "stat"
  /\ marker.present /\ marker.owner # p /\ pc[marker.owner] = "off"
  /\ now - marker.mtime > STALE_LOCK_AGE_MS

\* C15: a marker left by a killed holder does not block for ever: the
\* acquirer that sees it older than 60 seconds unlinks it and obtains the
\* lock, and on the way it neither checks the timeout nor backs off, however
\* long it has been trying.
C15_StaleLockRecovery ==
  /\ SeesStaleMarker(2) ~> (marker.present /\ marker.owner = 2 /\ pc[2] = "load")
  /\ [][ \A p \in Procs :
          /\ (SeesStaleMarker(p) /\ pc'[p] # "stat")
               => (pc'[p] = "unlink" /\ result'[p] = result[p])
          /\ (pc[p] = "unlink" /\ marker.present /\ pc'[p] # "unlink")
               => (~marker'.present /\ pc'[p] = "open")
          /\ (pc[p] = "open" /\ ~marker.present /\ pc'[p] # "open")
               => (marker'.present /\ marker'.owner = p /\ pc'[p] = "load") ]_vars

\* The holder was killed, and the other process holds the lock after more
\* than 60 seconds: it has removed the marker that was left behind.
C15_Witness ==
  /\ pc[1] = "off"
  /\ marker.present /\ marker.owner = 2 /\ pc[2] = "load"
  /\ now > STALE_LOCK_AGE_MS
  /\ marker.mtime = now

\* C16: check(port) returns exactly one of leased, inUse and available:
\* leased, with the identifier and pool of a lease on the port and without a
\* call of the probe, when the registry has a lease on the port; otherwise
\* inUse when the probe reports the port occupied; otherwise available.
C16_CheckClassifies ==
  [][ \A p \in Procs, busy \in SeqArgs.busy :
        CheckRun(p, busy) =>
          LET c == result'[p].check
              onPort == { i \in 1..Len(mem[p].leases) : mem[p].leases[i].port = op[p].port }
          IN /\ Cardinality({ f \in {"leased", "inUse", "available"} : c[f] }) = 1
             /\ c.leased <=> onPort # {}
             /\ c.leased =>
                  /\ ~c.probed
                  /\ \E i \in onPort : /\ c.identifier = mem[p].leases[i].identifier
                                        /\ c.pool = mem[p].leases[i].pool
             /\ c.inUse <=> (onPort = {} /\ op[p].port \in busy)
             /\ c.available <=> (onPort = {} /\ op[p].port \notin busy) ]_vars

\* check() has found the port leased.
C16_Witness ==
  \E p \in Procs :
    /\ pc[p] = "done" /\ op[p].name = "check"
    /\ result[p].check.leased
    /\ result[p].check.identifier # <<>>

\* A cleanup() call runs findStaleLeases with these answers of the filesystem
\* and of the probe.
CleanupRuns(p, missing, busy) == CleanupRun(p, missing, busy)

Flagged(l, res) == \E k \in 1..Len(res.staleLeases) : res.staleLeases[k].lease = l

PathGone(l, missing) == l.worktreePath # <<>> /\ l.worktreePath \in missing

\* C17: cleanup flags every lease whose worktreePath is non-empty and does not
\* exist, whatever its age and whatever the probe would report, and does not
\* call the probe for it.
C17_MissingWorktreeStale ==
  [][ \A p \in Procs, missing \in AgeArgs.missing, busy \in AgeArgs.busy :
        CleanupRuns(p, missing, busy) =>
          \A i \in 1..Len(mem[p].leases) :
            PathGone(mem[p].leases[i], missing) =>
              /\ Flagged(mem[p].leases[i], result'[p])
              /\ mem[p].leases[i] \notin result'[p].probed ]_vars

\* cleanup has flagged a lease created in the same millisecond because its
\* worktree path does not exist.
C17_Witness ==
  \E p \in Procs :
    /\ pc[p] = "unlock" /\ op[p].name = "cleanup"
    /\ \E k \in 1..Len(result[p].staleLeases) :
         /\ result[p].staleLeases[k].reason = "worktree path does not exist"
         /\ result[p].staleLeases[k].lease.leasedAt = now
         /\ result[p].staleLeases[k].lease.worktreePath = PathW

\* C18 as stated: a lease older than 7 days whose port the probe reports in
\* use is never flagged by cleanup.
C18_InUseNeverFlagged ==
  [][ \A p \in Procs, missing \in AgeArgs.missing, busy \in AgeArgs.busy :
        CleanupRuns(p, missing, busy) =>
          \A i \in 1..Len(mem[p].leases) :
            ( /\ now - mem[p].leases[i].leasedAt > StaleThresholdMs
              /\ mem[p].leases[i].port \in busy )
            => ~Flagged(mem[p].leases[i], result'[p]) ]_vars

\* C18 amended: a lease older than 7 days whose port the probe reports in use
\* and whose worktreePath is empty or exists is never flagged by cleanup.
C18_InUseNotFlaggedByAge ==
  [][ \A p \in Procs, missing \in AgeArgs.missing, busy \in AgeArgs.busy :
        CleanupRuns(p, missing, busy) =>
          \A i \in 1..Len(mem[p].leases) :
            ( /\ now - mem[p].leases[i].leasedAt > StaleThresholdMs
              /\ mem[p].leases[i].port \in busy
              /\ ~PathGone(mem[p].leases[i], missing) )
            => ~Flagged(mem[p].leases[i], result'[p]) ]_vars

\* cleanup has asked the probe about a lease older than 7 days and has not
\* flagged it.
C18_Witness ==
  \E p \in Procs :
    /\ pc[p] = "unlock" /\ op[p].name = "cleanup"
    /\ \E l \in result[p].probed :
         /\ now - l.leasedAt > StaleThresholdMs
         /\ ~Flagged(l, result[p])

\* C19: a lease whose age is at most 7 days, exactly 7 days included, and
\* whose worktreePath is empty or exists is never flagged by cleanup,
\* whatever the probe reports.
C19_YoungNotFlagged ==
  [][ \A p \in Procs, missing \in AgeArgs.missing, busy \in AgeArgs.busy :
        CleanupRuns(p, missing, busy) =>
          \A i \in 1..Len(mem[p].leases) :
            ( /\ now - mem[p].leases[i].leasedAt <= StaleThresholdMs
              /\ ~PathGone(mem[p].leases[i], missing) )
            => ~Flagged(mem[p].leases[i], result'[p]) ]_vars

\* cleanup has run on a lease that is exactly 7 days old and has flagged
\* nothing.
C19_Witness ==
  \E p \in Procs :
    /\ pc[p] = "unlock" /\ op[p].name = "cleanup"
    /\ result[p].status = "ok" /\ result[p].staleLeases = <<>>
    /\ \E i \in 1..Len(disk.leases) : now - disk.leases[i].leasedAt = StaleThresholdMs

BodyReturns(p, name) ==
  /\ pc[p] = "body" /\ op[p].name = name
  /\ pc'[p] = "unlock" /\ result'[p].error # "SaveFailed"

\* C21: poolUpdate() on a pool that has a lease with a port outside the new
\* range fails, and the pool ranges and the leases in the registry file stay
\* as they were.
C21_PoolUpdateRejected ==
  [][ \A p \in Procs :
        ( /\ BodyReturns(p, "poolUpdate")
          /\ \E i \in 1..Len(mem[p].leases) :
               /\ mem[p].leases[i].pool = op[p].pool
               /\ \/ mem[p].leases[i].port < op[p].rangeStart
                  \/ mem[p].leases[i].port > op[p].rangeEnd )
        => /\ result'[p].status = "error"
           /\ result'[p].error = "LeasesOutOfRange"
           /\ disk' = disk /\ exists' = exists ]_vars

\* poolUpdate has been rejected because of a lease outside the new range.
C21_Witness ==
  \E p \in Procs :
    /\ pc[p] = "unlock" /\ op[p].name = "poolUpdate"
    /\ result[p].error = "LeasesOutOfRange"
    /\ \E i \in 1..Len(disk.leases) : disk.leases[i].pool = op[p].pool

\* C22: poolDelete() on a pool with leases fails and the registry file keeps
\* the pool and its leases; on an existing pool without leases it succeeds
\* and the pool is gone from the registry file, the other pools staying.
C22_PoolDelete ==
  [][ \A p \in Procs :
        (BodyReturns(p, "poolDelete") /\ hasPool(mem[p], op[p].pool)) =>
          IF \E i \in 1..Len(mem[p].leases) : mem[p].leases[i].pool = op[p].pool
          THEN /\ result'[p].status = "error"
               /\ result'[p].error = "PoolHasLeases"
               /\ disk' = disk
          ELSE /\ result'[p].status = "ok"
               /\ DOMAIN disk'.pools = DOMAIN disk.pools \ {op[p].pool}
               /\ \A n \in DOMAIN disk'.pools : disk'.pools[n] = disk.pools[n]
               /\ disk'.leases = disk.leases ]_vars

\* poolDelete has failed on a pool with a lease, and the pool is in the file.
C22_Witness ==
  \E p \in Procs :
    /\ pc[p] = "unlock" /\ op[p].name = "poolDelete"
    /\ result[p].error = "PoolHasLeases"
    /\ hasPool(disk, op[p].pool)
    /\ \E i \in 1..Len(disk.leases) : disk.leases[i].pool = op[p].pool

PoolRangesOrdered ==
  \A n \in DOMAIN disk.pools : disk.pools[n].rangeStart < disk.pools[n].rangeEnd

\* C23: poolAdd and poolUpdate with rangeStart >= rangeEnd throw before they
\* take the lock and change nothing, and every pool of the registry file has
\* rangeStart < rangeEnd.
C23_PoolRangeInvariant ==
  /\ []PoolRangesOrdered
  /\ [][ \A p \in Procs :
          (pc[p] = "idle" /\ pc'[p] # "idle" /\ op'[p].name \in {"poolAdd", "poolUpdate"})
          => /\ disk' = disk /\ exists' = exists /\ marker' = marker
             /\ \/ pc'[p] = "done" /\ result'[p].status = "error"
                \/ pc'[p] = "open" /\ op'[p].rangeStart < op'[p].rangeEnd ]_vars

\* poolAdd has thrown on rangeStart >= rangeEnd.
C23_Witness ==
  \E p \in Procs :
    /\ pc[p] = "done" /\ op[p].name = "poolAdd"
    /\ result[p].error = "RangeOrder"

C25_ReadOnlyOps ==
  [][ \A p \in Procs :
        (op[p].name \in ReadOnly /\ pc'[p] # pc[p]) =>
          /\ marker' = marker
          /\ exists => disk' = disk ]_vars

\* C26: a command that fails because acquireLock timed out exits with code 3,
\* and a lease that fails on an exhausted pool exits with code 2.
C26_ExitCodes ==
  \A p \in Procs :
    /\ result[p].error = "LockTimeout" =>
         exitCode(op[p].name, result[p]) = EXIT_LOCK_TIMEOUT
    /\ (op[p].name = "lease" /\ result[p].error = "PoolExhausted") =>
         exitCode(op[p].name, result[p]) = EXIT_POOL_EXHAUSTED

\* The three pools of a registry created by default, written out.
IsDefaultContent(r) ==
  /\ DOMAIN r.pools = {"frontend", "backend", "storybook"}
  /\ r.pools["frontend"] = [rangeStart |-> 3300, rangeEnd |-> 3499]
  /\ r.pools["backend"] = [rangeStart |-> 5300, rangeEnd |-> 5499]
  /\ r.pools["storybook"] = [rangeStart |-> 6300, rangeEnd |-> 6499]
  /\ r.leases = <<>>

\* C27: init without force on an existing registry file fails with
\* 'Registry already exists' and leaves the file as it is; init with force
\* replaces the file by the default registry (three pools, no leases).
C27_InitForce ==
  [][ \A p \in Procs :
        /\ (pc[p] = "idle" /\ op'[p].name = "init" /\ exists /\ ~op'[p].flag) =>
             /\ pc'[p] = "done"
             /\ result'[p].status = "error"
             /\ result'[p].error = "RegistryExists"
             /\ exists' /\ disk' = disk
        /\ (pc[p] = "idle" /\ op'[p].name = "init" /\ op'[p].flag) =>
             pc'[p] = "initWrite"
        /\ (op[p].name = "init" /\ pc[p] = "initWrite" /\ pc'[p] # pc[p]) =>
             /\ pc'[p] = "done"
             /\ result'[p].status = "ok"
             /\ exists' /\ IsDefaultContent(disk') ]_vars

C27_Witness ==
  \E p \in Procs :
    /\ pc[p] = "done" /\ op[p].name = "init"
    /\ result[p].error = "RegistryExists"
    /\ Len(disk.leases) >= 1

\* C28: releaseLock with no marker present completes without an error and
\* leaves the marker absent.
C28_IdempotentRelease ==
  [][ \A p \in Procs :
        (pc[p] = "unlock" /\ ~marker.present /\ pc'[p] # pc[p]) =>
          /\ ~marker'.present
          /\ pc'[p] = "idle"
          /\ result'[p].status # "error" ]_vars

C28_Witness ==
  \E p \in Procs : pc[p] = "unlock" /\ ~marker.present

\* C29: getRegistry with no registry file writes the default registry (three
\* pools, no leases) and returns it; with a registry file it returns what is
\* stored and writes nothing.
C29_FirstUseDefault ==
  [][ \A p \in Procs :
        /\ (pc[p] = "load" /\ ~exists /\ pc'[p] # pc[p]) =>
             pc'[p] = "initWrite" /\ disk' = disk /\ ~exists'
        /\ (op[p].name # "init" /\ pc[p] = "initWrite" /\ pc'[p] # pc[p]) =>
             /\ exists' /\ IsDefaultContent(disk')
             /\ op[p].name \in UsesRegistry =>
                  pc'[p] = "body" /\ mem'[p] = disk'
        /\ (pc[p] = "load" /\ exists /\ pc'[p] # pc[p]) =>
             /\ exists' /\ disk' = disk
             /\ op[p].name \in UsesRegistry =>
                  pc'[p] = "body" /\ mem'[p] = disk ]_vars

C29_Witness ==
  \E p \in Procs :
    /\ pc[p] = "body" /\ mem[p] = disk
    /\ Len(disk.leases) >= 1

\* C30: the unlink of acquireLock removes a marker only when that marker is
\* older than 60 s at the moment it is removed.
C30_StaleRemovalSafety ==
  [][ \A p \in Procs :
        (pc[p] = "unlink" /\ marker.present /\ ~marker'.present) =>
          now - marker.mtime > STALE_LOCK_AGE_MS ]_vars

\* C31: releaseLock removes only a marker that the releasing process created.
C31_ReleaseOwnMarker ==
  [][ \A p \in Procs :
        (pc[p] = "unlock" /\ pc'[p] # pc[p] /\ marker.present /\ ~marker'.present) =>
          marker.owner = p ]_vars

\* C32: every lease of the persisted registry names a pool of the registry
\* and has its port within the range that pool has now.
C32_ReferentialIntegrity ==
  \A i \in 1..Len(disk.leases) :
    /\ hasPool(disk, disk.leases[i].pool)
    /\ disk.pools[disk.leases[i].pool].rangeStart <= disk.leases[i].port
    /\ disk.leases[i].port <= disk.pools[disk.leases[i].pool].rangeEnd

\* Leases in an added pool and in a pool whose range was updated.
C32_Witness ==
  /\ hasPool(disk, "custom") /\ hasPool(disk, "frontend")
  /\ disk.pools["frontend"].rangeEnd = 3301
  /\ \E i \in 1..Len(disk.leases), j \in 1..Len(disk.leases) :
       disk.leases[i].pool = "custom" /\ disk.leases[j].pool = "frontend"

\* C33: when the operations run one at a time, no two leases of the persisted
\* registry with the same pool name have the same port.
C33_PortsUniquePerPool ==
  \A i \in 1..Len(disk.leases), j \in 1..Len(disk.leases) :
    (disk.leases[i].pool = disk.leases[j].pool
       /\ disk.leases[i].port = disk.leases[j].port) => i = j

\* Two leases of one pool, taken for the two tags of one identifier.
C33_Witness ==
  \E i \in 1..Len(disk.leases), j \in 1..Len(disk.leases) :
    /\ i # j /\ disk.leases[i].pool = disk.leases[j].pool
    /\ disk.leases[i].identifier = disk.leases[j].identifier
    /\ disk.leases[i].tag # disk.leases[j].tag

\* C34: lease() for a new triple succeeds, and does not report the pool as
\* exhausted, whenever a port of the pool's range is neither leased in the
\* pool nor in use, for every range poolAdd and poolUpdate accept.
C34_LeaseCompleteness ==
  [][ \A p \in Procs, busy \in SeqArgs.busy :
        (NewLeaseRun(p, busy) /\ FreePorts(mem[p], op[p].pool, busy) # {}) =>
          /\ result'[p].error # "PoolExhausted"
          /\ result'[p].status = "ok" ]_vars

\* C35: a cleanup that is not a dry run removes exactly the leases it reports
\* as stale: each reported lease is gone, each other lease is still there,
\* and removedCount is the number of reported leases.
C35_LiveCleanupExact ==
  [][ \A p \in Procs, missing \in AgeArgs.missing, busy \in AgeArgs.busy :
        (CleanupRuns(p, missing, busy) /\ ~op[p].flag) =>
          /\ result'[p].removedCount = Len(result'[p].staleLeases)
          /\ \A i \in 1..Len(mem[p].leases) :
               LET l == mem[p].leases[i] IN
               InLeases(l, disk'.leases) <=> ~Flagged(l, result'[p]) ]_vars

\* The persisted registry holds a lease for the triple of the lease() call
\* that process p is running.
LeaseOnFile(p) ==
  /\ op[p].name = "lease" /\ exists
  /\ getExistingLease(disk, op[p].identifier, op[p].pool, op[p].tag) # 0

\* C36: a lease() call that finds a lease for its triple writes nothing: no
\* step of the call changes the persisted document, lastModified included,
\* and it returns the port of that lease.
C36_ExistingLeaseNoWrite ==
  [][ \A p \in Procs :
        (LeaseOnFile(p) /\ pc'[p] # pc[p]) =>
          /\ disk' = disk /\ exists' = exists
          /\ (pc[p] = "body") =>
               /\ result'[p].status = "ok" /\ ~result'[p].saved
               /\ result'[p].port =
                    disk.leases[getExistingLease(disk, op[p].identifier,
                                                 op[p].pool, op[p].tag)].port ]_vars

\* lease() has returned an existing lease, made at an earlier time and with
\* another worktreePath than the one of the call.
C36_Witness ==
  \E p \in Procs :
    /\ LeaseOnFile(p) /\ pc[p] = "unlock"
    /\ result[p].status = "ok" /\ ~result[p].saved
    /\ LET l == disk.leases[getExistingLease(disk, op[p].identifier,
                                               op[p].pool, op[p].tag)]
       IN l.leasedAt < now /\ l.worktreePath # op[p].worktreePath

\* Two lease records for the same (identifier, pool, tag).
SameLeaseKey(a, b) ==
  a.identifier = b.identifier /\ a.pool = b.pool /\ a.tag = b.tag

\* C37: a step changes the lease list only by removing leases and by
\* appending new ones: the leases that stay keep every field and their
\* relative order, a new lease comes after them, and no new record takes the
\* place of a lease with its (identifier, pool, tag).
C37_LeasesImmutable ==
  [][ LET old == disk.leases
          new == disk'.leases
      IN /\ \A i \in 1..Len(new), j \in 1..Len(new) :
              (i < j /\ InLeases(new[i], old) /\ InLeases(new[j], old)) =>
                \E m \in 1..Len(old), n \in 1..Len(old) :
                  m < n /\ old[m] = new[i] /\ old[n] = new[j]
         /\ \A i \in 1..Len(new), j \in 1..Len(new) :
              (i < j /\ InLeases(new[j], old)) => InLeases(new[i], old)
         /\ \A j \in 1..Len(new) :
              ~InLeases(new[j], old) =>
                \A m \in 1..Len(old) : ~SameLeaseKey(old[m], new[j]) ]_vars

\* After a repeated lease() with another worktreePath, 7 days later, the
\* registry holds two leases, the first one as it was made.
C37_Witness ==
  \E p \in Procs :
    /\ LeaseOnFile(p) /\ pc[p] = "unlock" /\ result[p].status = "ok"
    /\ Len(disk.leases) = 2
    /\ SameLeaseKey(disk.leases[1], op[p])
    /\ disk.leases[1].leasedAt < now
    /\ disk.leases[1].worktreePath # op[p].worktreePath

\* C38: a mutating call whose acquireLock timed out has loaded nothing and
\* written nothing, and has not removed a marker that another process was
\* holding.
C38_TimedOutNeverRuns ==
  \A p \in Procs :
    (pc[p] = "done" /\ result[p].error = "LockTimeout") =>
      /\ op[p].name \in Mutating
      /\ mem[p] = NoRegistry /\ ~result[p].saved
      /\ ~broke[p]

\* A lease that poolUpdate(name, start, end) counts as affected and that lies
\* outside [start, end]; the suffixed names are written out.
BlocksUpdate(l, name, start, end) ==
  /\ \/ l.pool = name
     \/ name = "frontend" /\ l.pool = "frontend-https"
  /\ (l.port < start \/ l.port > end)

\* C39: poolUpdate(name, start, end) is rejected, and nothing is persisted,
\* exactly when a lease of pool name or of pool name-https has its port
\* outside [start, end]; leases of other pools do not block it.
C39_HttpsSuffixAffected ==
  [][ \A p \in Procs :
        BodyReturns(p, "poolUpdate") =>
          LET blocked == \E i \in 1..Len(mem[p].leases) :
                           BlocksUpdate(mem[p].leases[i], op[p].pool,
                                        op[p].rangeStart, op[p].rangeEnd)
          IN /\ blocked =>
                  /\ result'[p].status = "error"
                  /\ result'[p].error = "LeasesOutOfRange"
                  /\ disk' = disk /\ ~result'[p].saved
             /\ (~blocked /\ hasPool(mem[p], op[p].pool)) =>
                  /\ result'[p].status = "ok"
                  /\ disk'.pools[op[p].pool] =
                       [rangeStart |-> op[p].rangeStart, rangeEnd |-> op[p].rangeEnd]
                  /\ disk'.leases = disk.leases ]_vars

\* poolUpdate("frontend") was rejected although no lease of pool frontend is
\* outside the new range: a lease of frontend-https is.
C39_Witness ==
  \E p \in Procs :
    /\ pc[p] = "unlock" /\ op[p].name = "poolUpdate" /\ op[p].pool = "frontend"
    /\ result[p].error = "LeasesOutOfRange"
    /\ \A i \in 1..Len(disk.leases) :
         disk.leases[i].pool = "frontend" =>
           /\ op[p].rangeStart <= disk.leases[i].port
           /\ disk.leases[i].port <= op[p].rangeEnd
    /\ \E i \in 1..Len(disk.leases) : disk.leases[i].pool = "frontend"

\* Process p takes a step of a mutating call.
MutatingStep(p) ==
  /\ pc'[p] # pc[p]
  /\ op[p].name \in Mutating \/ op'[p].name \in Mutating

\* C40: a mutating call loads, scans and saves only between its acquireLock
\* and its releaseLock: the load follows the open that created the marker,
\* the registry is read and written in no other step, and releaseLock is the
\* last step.
C40_WithinLock ==
  [][ \A p \in Procs :
        MutatingStep(p) =>
          /\ (pc'[p] = "load") =>
               /\ pc[p] = "open" /\ ~marker.present
               /\ marker'.present /\ marker'.owner = p
          /\ (pc'[p] \in {"initWrite", "body"}) => pc[p] \in {"load", "initWrite"}
          /\ (mem'[p] # mem[p] \/ disk' # disk \/ exists' # exists) =>
               pc[p] \in {"load", "initWrite", "body"}
          /\ (pc[p] = "body") => pc'[p] = "unlock"
          /\ (pc[p] = "unlock") =>
               /\ pc'[p] = "idle" /\ ~marker'.present
               /\ disk' = disk /\ mem' = mem ]_vars

\* A dry run of cleanup has scanned the leases and holds the marker.
C40_Witness ==
  \E p \in Procs :
    /\ pc[p] = "unlock" /\ op[p].name = "cleanup" /\ op[p].flag
    /\ result[p].status = "ok"
    /\ marker.present /\ marker.owner = p
    /\ Len(disk.leases) >= 1

====
